---------------------------- MODULE Spec2Model ----------------------------
(***************************************************************************)
(* The scoring and ranking script of District_Dashboard/Dashboard3.py:     *)
(* load the indicator table, min-max scale every feature column, invert    *)
(* the "bad" indicators, average good+bad into Environmental_Score, rank   *)
(* the districts, merge with the shapefile table and build the ranking     *)
(* table with its medal badges.                                            *)
(*                                                                         *)
(* Numbers.  The script computes in float64 and so does the model: every   *)
(* arithmetic operation is the exact result rounded to 53 binary digits.   *)
(* Raw indicator values are small whole numbers.                           *)
(*                                                                         *)
(* Schema.  The script lists four "good" and four "bad" columns; the model *)
(* keeps the first column of each list, and the table may carry one more   *)
(* feature column that is in neither list.                                 *)
(***************************************************************************)
EXTENDS Integers, Sequences, FiniteSets, TLC

\* Bounds of the model: at most MaxN districts in the table; the raw values
\* of a schema column are 0, 1 and MaxVal.
MaxN == 3
MaxVal == 6

-----------------------------------------------------------------------------
(* Natural numbers of any size: sequences of limbs in base W, the least    *)
(* significant first, without leading zero limbs.  They carry the exact    *)
(* intermediate results of the float64 operations.                         *)

W == 16384

LimbBits == 14

Limb(a, i) == IF i <= Len(a) THEN a[i] ELSE 0

Zeros(n) == [i \in 1..n |-> 0]

RECURSIVE BigOfNat(_)
BigOfNat(k) == IF k = 0 THEN <<>> ELSE <<k % W>> \o BigOfNat(k \div W)

RECURSIVE BigTrim(_)
BigTrim(a) ==
    IF a = <<>> THEN <<>>
    ELSE IF a[Len(a)] = 0 THEN BigTrim(SubSeq(a, 1, Len(a) - 1))
    ELSE a

RECURSIVE BigAddFrom(_, _, _, _)
BigAddFrom(a, b, i, carry) ==
    IF i > Len(a) /\ i > Len(b)
      THEN IF carry = 0 THEN <<>> ELSE <<carry>>
      ELSE LET s == Limb(a, i) + Limb(b, i) + carry
           IN  <<s % W>> \o BigAddFrom(a, b, i + 1, s \div W)

BigAdd(a, b) == BigTrim(BigAddFrom(a, b, 1, 0))

RECURSIVE BigSubFrom(_, _, _, _)
BigSubFrom(a, b, i, borrow) ==
    IF i > Len(a) THEN <<>>
    ELSE LET d == Limb(a, i) - Limb(b, i) - borrow
         IN  IF d < 0 THEN <<d + W>> \o BigSubFrom(a, b, i + 1, 1)
             ELSE <<d>> \o BigSubFrom(a, b, i + 1, 0)

\* a - b, for a >= b
BigSub(a, b) == BigTrim(BigSubFrom(a, b, 1, 0))

RECURSIVE BigCmpAt(_, _, _)
BigCmpAt(a, b, i) ==
    IF i = 0 THEN 0
    ELSE IF a[i] < b[i] THEN -1
    ELSE IF a[i] > b[i] THEN 1
    ELSE BigCmpAt(a, b, i - 1)

\* -1, 0, 1 as a < b, a = b, a > b
BigCmp(a, b) ==
    IF Len(a) < Len(b) THEN -1
    ELSE IF Len(a) > Len(b) THEN 1
    ELSE BigCmpAt(a, b, Len(a))

RECURSIVE BigMulSmallFrom(_, _, _, _)
BigMulSmallFrom(a, k, i, carry) ==
    IF i > Len(a) THEN BigOfNat(carry)
    ELSE LET p == a[i] * k + carry
         IN  <<p % W>> \o BigMulSmallFrom(a, k, i + 1, p \div W)

\* a * k, for 0 <= k <= W
BigMulSmall(a, k) == BigTrim(BigMulSmallFrom(a, k, 1, 0))

RECURSIVE BigMulFrom(_, _, _)
BigMulFrom(a, b, i) ==
    IF i > Len(b) THEN <<>>
    ELSE BigAdd(Zeros(i - 1) \o BigMulSmall(a, b[i]), BigMulFrom(a, b, i + 1))

BigMul(a, b) == BigTrim(BigMulFrom(a, b, 1))

RECURSIVE BigDivSmallAt(_, _, _, _)
BigDivSmallAt(a, k, i, r) ==
    IF i = 0 THEN <<<<>>, r>>
    ELSE LET cur == r * W + a[i]
             rest == BigDivSmallAt(a, k, i - 1, cur % k)
         IN  <<Append(rest[1], cur \div k), rest[2]>>

\* <<a div k, a mod k>>, for 0 < k <= W
BigDivSmall(a, k) ==
    LET d == BigDivSmallAt(a, k, Len(a), 0) IN <<BigTrim(d[1]), d[2]>>

RECURSIVE BitsOf(_)
BitsOf(x) == IF x = 0 THEN 0 ELSE 1 + BitsOf(x \div 2)

\* the number of binary digits of a
BitLen(a) == IF a = <<>> THEN 0 ELSE (Len(a) - 1) * LimbBits + BitsOf(a[Len(a)])

\* a * 2^s
BigShl(a, s) ==
    IF a = <<>> THEN <<>>
    ELSE Zeros(s \div LimbBits) \o BigMulSmall(a, 2 ^ (s % LimbBits))

\* a div 2^s
BigShr(a, s) ==
    IF s \div LimbBits >= Len(a) THEN <<>>
    ELSE BigDivSmall(SubSeq(a, s \div LimbBits + 1, Len(a)), 2 ^ (s % LimbBits))[1]

\* binary digit p of a, the lowest being digit 0
BigBit(a, p) == (Limb(a, p \div LimbBits + 1) \div 2 ^ (p % LimbBits)) % 2

\* a mod 2^s is not 0
BigLowNonzero(a, s) ==
    \/ \E i \in 1..(s \div LimbBits) : Limb(a, i) # 0
    \/ Limb(a, s \div LimbBits + 1) % 2 ^ (s % LimbBits) # 0

BigOdd(a) == Limb(a, 1) % 2 = 1

-----------------------------------------------------------------------------
(* float64 (IEEE 754 binary64, round to nearest, ties to even).  A value   *)
(* is <<sign, mantissa, exponent>> and stands for sign * mantissa *        *)
(* 2^exponent; the mantissa of a value other than 0 has exactly Precision  *)
(* binary digits.  The exponent range is not modelled: the values of the   *)
(* script stay far from overflow and from the subnormal numbers.           *)

Precision == 53

Zero == <<0, <<>>, 0>>

\* what a division by zero leaves behind (inf, nan): it absorbs every
\* operation and compares false with everything
NaN == <<0, <<>>, 1>>

\* N div 2^d rounded to nearest, ties to even; sticky tells that the exact
\* value lies above N
RoundShift(N, d, sticky) ==
    LET q == BigShr(N, d)
        up == /\ BigBit(N, d - 1) = 1
              /\ sticky \/ BigLowNonzero(N, d - 1) \/ BigOdd(q)
    IN  IF up THEN BigAdd(q, <<1>>) ELSE q

\* the float64 nearest to s * N * 2^e
FRound(s, N, e, sticky) ==
    IF N = <<>> THEN Zero
    ELSE LET L == BitLen(N)
         IN  IF L <= Precision
               THEN <<s, BigShl(N, Precision - L), e - (Precision - L)>>
               ELSE LET d == L - Precision
                        q == RoundShift(N, d, sticky)
                    IN  IF BitLen(q) > Precision
                          THEN <<s, BigShr(q, 1), e + d + 1>>
                          ELSE <<s, q, e + d>>

Abs(x) == IF x < 0 THEN -x ELSE x

Sign(x) == IF x < 0 THEN -1 ELSE IF x > 0 THEN 1 ELSE 0

\* the float64 of a whole number
FInt(k) == FRound(Sign(k), BigOfNat(Abs(k)), 0, FALSE)

FNeg(a) == <<-a[1], a[2], a[3]>>

\* -1, 0, 1 as a < b, a = b, a > b (neither NaN)
FCmp(a, b) ==
    IF a[1] # b[1] THEN (IF a[1] < b[1] THEN -1 ELSE 1)
    ELSE IF a[1] = 0 THEN 0
    ELSE a[1] * (IF a[3] < b[3] THEN -1
                 ELSE IF a[3] > b[3] THEN 1
                 ELSE BigCmp(a[2], b[2]))

FLt(a, b) == a # NaN /\ b # NaN /\ FCmp(a, b) < 0
FLe(a, b) == a # NaN /\ b # NaN /\ FCmp(a, b) <= 0

FAdd(a, b) ==
    IF a = NaN \/ b = NaN THEN NaN
    ELSE IF a[1] = 0 THEN b
    ELSE IF b[1] = 0 THEN a
    ELSE LET e == IF a[3] < b[3] THEN a[3] ELSE b[3]
             A == BigShl(a[2], a[3] - e)
             B == BigShl(b[2], b[3] - e)
             c == BigCmp(A, B)
         IN  IF a[1] = b[1] THEN FRound(a[1], BigAdd(A, B), e, FALSE)
             ELSE IF c = 0 THEN Zero
             ELSE IF c > 0 THEN FRound(a[1], BigSub(A, B), e, FALSE)
             ELSE FRound(b[1], BigSub(B, A), e, FALSE)

FSub(a, b) == FAdd(a, FNeg(b))

FMul(a, b) ==
    IF a = NaN \/ b = NaN THEN NaN
    ELSE FRound(a[1] * b[1], BigMul(a[2], b[2]), a[3] + b[3], FALSE)

\* a / b for a divisor whose mantissa has at most LimbBits significant
\* digits (the whole numbers below W, which are the divisors of the script)
FDiv(a, b) ==
    IF a = NaN \/ b = NaN \/ b[1] = 0 THEN NaN
    ELSE LET k == BigShr(b[2], Precision - LimbBits)[1]
             d == BigDivSmall(Zeros(2) \o a[2], k)
         IN  FRound(a[1] * b[1], d[1],
                    a[3] - 2 * LimbBits - (b[3] + Precision - LimbBits),
                    d[2] # 0)

\* numpy rint: the nearest whole number, ties to even
FRint(a) ==
    IF a = NaN \/ a[1] = 0 \/ a[3] >= 0 THEN a
    ELSE FRound(a[1], RoundShift(a[2], -a[3], FALSE), 0, FALSE)

\* the whole number a float64 is truncated to (astype(int))
FTrunc(a) ==
    LET n == IF a[3] >= 0 THEN BigShl(a[2], a[3]) ELSE BigShr(a[2], -a[3])
    IN  a[1] * (Limb(n, 1) + W * Limb(n, 2))

-----------------------------------------------------------------------------
(* The fixed configuration of the script.                                  *)

KeyCol == "ADM2_EN"

good == <<"Rain_dist_Mean_Rainfall_mm">>

bad == <<"co_dist_Mean_CO">>

\* a feature column of the table that is in neither list
OtherCol == "Other_Indicator"

Range(s) == {s[i] : i \in DOMAIN s}

\* the column layouts of the CSV file the model considers: the full schema
\* with one extra feature column, and the two files that lack a schema column
Layouts ==
    { <<KeyCol, good[1], bad[1], OtherCol>>,
      <<KeyCol, good[1], OtherCol>>,
      <<KeyCol, bad[1], OtherCol>> }

\* a table: its ordered column names and its rows (functions column -> cell)
Table(cols, rows) == [columns |-> cols, rows |-> rows]

NoTable == Table(<<>>, <<>>)

\* the district of row i of the file (district names are unique)
District(i) == i

\* the raw columns the model draws for a file of n rows (read_csv parses
\* the cells as float64): every column over 0, 1 and MaxVal for a schema
\* column; for the extra column a constant one and a strictly increasing one
RawColumns(c, n) ==
    IF c = OtherCol
      THEN { [i \in 1..n |-> FInt(MaxVal)], [i \in 1..n |-> FInt(i)] }
      ELSE [1..n -> {FInt(0), FInt(1), FInt(MaxVal)}]

\* the shapefile table: one polygon per district, listed in reverse order
ShapeFile ==
    Table(<<KeyCol, "geometry">>,
          [i \in 1..MaxN |->
              [c \in {KeyCol, "geometry"} |-> District(MaxN + 1 - i)]])

-----------------------------------------------------------------------------
VARIABLES
    csv,          \* District_Data_Modified.csv, as stored on disk
    df,           \* the loaded indicator table
    gdf,          \* the loaded shapefile table
    scaled_data,  \* the scored table
    merged,       \* gdf joined with df and the score and rank columns
    ranked,       \* the ranking table
    top3,         \* the lines written under "Top 3 Districts"
    b,            \* position of the polarity loop in bad
    err,          \* the exception that ended the script, or "none"
    pc            \* the statement the script is at

vars == <<csv, df, gdf, scaled_data, merged, ranked, top3, b, err, pc>>

\* the state after df, gdf = load_data()
Init ==
    /\ \E cols \in Layouts, n \in 0..MaxN :
         \E x \in RawColumns(cols[2], n), y \in RawColumns(cols[3], n),
            z \in RawColumns(cols[Len(cols)], n) :
            /\ Len(cols) = 3 => z = y
            /\ csv = Table(cols,
                           [i \in 1..n |->
                               [c \in Range(cols) |->
                                   IF c = KeyCol THEN District(i)
                                   ELSE IF c = cols[2] THEN x[i]
                                   ELSE IF c = cols[3] THEN y[i]
                                   ELSE z[i]]])
    /\ df = csv
    /\ gdf = ShapeFile
    /\ scaled_data = NoTable
    /\ merged = NoTable
    /\ ranked = NoTable
    /\ top3 = <<>>
    /\ b = 1
    /\ err = "none"
    /\ pc = "scale"

-----------------------------------------------------------------------------
(* Table helpers (pandas column access).                                   *)

HasCol(t, c) == c \in Range(t.columns)

NRows(t) == Len(t.rows)

\* t[c] = values, one per row: assign column c (appended when it is new)
SetCol(t, c, values) ==
    Table(IF HasCol(t, c) THEN t.columns ELSE Append(t.columns, c),
          [i \in 1..NRows(t) |->
              [k \in Range(t.columns) \cup {c} |->
                  IF k = c THEN values[i] ELSE t.rows[i][k]]])

\* t[cols]: the sub-table of the listed columns
Project(t, cols) ==
    Table(cols, [i \in 1..NRows(t) |-> [k \in Range(cols) |-> t.rows[i][k]]])

Column(t, c) == [i \in 1..NRows(t) |-> t.rows[i][c]]

\* df.columns[1:]
features(t) == Tail(t.columns)

-----------------------------------------------------------------------------
(* MinMaxScaler().fit_transform, one column at a time.                     *)

Min(S) == CHOOSE x \in S : \A y \in S : FLe(x, y)
Max(S) == CHOOSE x \in S : \A y \in S : FLe(y, x)

data_min(col) == Min(Range(col))
data_max(col) == Max(Range(col))

\* a scaler that keeps a zero range as it is
keep_zero_range(r) == r

\* 10 * np.finfo(float64).eps
TenEps == FRound(1, BigOfNat(10), -52, FALSE)

\* sklearn _handle_zeros_in_scale: a range below 10 * eps is replaced by 1
handle_zeros_in_scale(r) == IF FLt(r, TenEps) THEN FInt(1) ELSE r

\* scale_ = (1 - 0) / handle_zeros(data_max - data_min)
scale_(col) ==
    FDiv(FInt(1), handle_zeros_in_scale(FSub(data_max(col), data_min(col))))

\* min_ = 0 - data_min * scale_
min_(col) == FSub(FInt(0), FMul(data_min(col), scale_(col)))

\* X *= scale_; X += min_
transform(x, scale, min) == FAdd(FMul(x, scale), min)

fit_transform(col) ==
    LET scale == scale_(col)
        min == min_(col)
    IN  [i \in DOMAIN col |-> transform(col[i], scale, min)]

RECURSIVE ScaleColumns(_, _, _)
ScaleColumns(t, src, cols) ==
    IF cols = <<>> THEN t
    ELSE ScaleColumns(SetCol(t, Head(cols), fit_transform(Column(src, Head(cols)))),
                      src, Tail(cols))

\* the script without the copy: scaled_data and df name one table
ScaleInPlace ==
    /\ pc = "scale"
    /\ IF NRows(df) = 0
         THEN /\ err' = "ValueError"
              /\ pc' = "failed"
              /\ UNCHANGED <<scaled_data, df>>
         ELSE /\ scaled_data' = ScaleColumns(df, df, features(df))
              /\ df' = scaled_data'
              /\ pc' = "polarity"
              /\ UNCHANGED err
    /\ UNCHANGED <<csv, gdf, merged, ranked, top3, b>>

\* lines 57-60: scaled_data = df.copy(); scaled_data[features] = fit_transform.
\* fit_transform raises ValueError on a table without rows.
Scale ==
    /\ pc = "scale"
    /\ IF NRows(df) = 0
         THEN /\ err' = "ValueError"
              /\ pc' = "failed"
              /\ UNCHANGED scaled_data
         ELSE /\ scaled_data' = ScaleColumns(df, df, features(df))
              /\ pc' = "polarity"
              /\ UNCHANGED err
    /\ UNCHANGED <<csv, df, gdf, merged, ranked, top3, b>>

-----------------------------------------------------------------------------
(* for b in bad: scaled_data[b] = 1 - scaled_data[b]                       *)

OneMinus(v) == FSub(FInt(1), v)

\* a loop body that inverts every feature column, not only bad[b]
PolarityAllFeatures ==
    /\ pc = "polarity"
    /\ b <= Len(bad)
    /\ IF HasCol(scaled_data, bad[b])
         THEN /\ scaled_data' =
                    Table(scaled_data.columns,
                          [i \in 1..NRows(scaled_data) |->
                              [c \in Range(scaled_data.columns) |->
                                  IF c = KeyCol THEN scaled_data.rows[i][c]
                                  ELSE OneMinus(scaled_data.rows[i][c])]])
              /\ b' = b + 1
              /\ UNCHANGED <<err, pc>>
         ELSE /\ err' = "KeyError"
              /\ pc' = "failed"
              /\ UNCHANGED <<scaled_data, b>>
    /\ UNCHANGED <<csv, df, gdf, merged, ranked, top3>>

\* one iteration of the loop; a column absent from the table raises KeyError
Polarity ==
    /\ pc = "polarity"
    /\ b <= Len(bad)
    /\ IF HasCol(scaled_data, bad[b])
         THEN /\ scaled_data' =
                    SetCol(scaled_data, bad[b],
                           [i \in 1..NRows(scaled_data) |->
                               OneMinus(scaled_data.rows[i][bad[b]])])
              /\ b' = b + 1
              /\ UNCHANGED <<err, pc>>
         ELSE /\ err' = "KeyError"
              /\ pc' = "failed"
              /\ UNCHANGED <<scaled_data, b>>
    /\ UNCHANGED <<csv, df, gdf, merged, ranked, top3>>

-----------------------------------------------------------------------------
(* scaled_data['Environmental_Score'] = scaled_data[good + bad].mean(axis=1) *)

\* the sum of the first k listed columns of a row, added left to right
RECURSIVE SumOver(_, _, _)
SumOver(row, cols, k) ==
    IF k = 0 THEN Zero
    ELSE FAdd(SumOver(row, cols, k - 1), row[cols[k]])

\* the mean of a row over the listed columns: sum / count
mean(row, cols) == FDiv(SumOver(row, cols, Len(cols)), FInt(Len(cols)))

\* the columns averaged into the score: good + bad
score_columns == good \o bad

Score ==
    /\ pc = "polarity"
    /\ b > Len(bad)
    /\ IF \A c \in Range(score_columns) : HasCol(scaled_data, c)
         THEN /\ scaled_data' =
                    SetCol(scaled_data, "Environmental_Score",
                           [i \in 1..NRows(scaled_data) |->
                               mean(scaled_data.rows[i], score_columns)])
              /\ pc' = "rank"
              /\ UNCHANGED err
         ELSE /\ err' = "KeyError"
              /\ pc' = "failed"
              /\ UNCHANGED scaled_data
    /\ UNCHANGED <<csv, df, gdf, merged, ranked, top3, b>>

-----------------------------------------------------------------------------
(* scaled_data['Rank'] =                                                   *)
(*   scaled_data['Environmental_Score'].rank(ascending=False, method='min') *)
(*   .astype(int)                                                          *)

\* insert index x into the index sequence s ordered by ascending key, after
\* the indices of equal key
RECURSIVE Insert(_, _, _)
Insert(s, x, key) ==
    IF s = <<>> THEN <<x>>
    ELSE IF FLt(key[x], key[Head(s)]) THEN <<x>> \o s
    ELSE <<Head(s)>> \o Insert(Tail(s), x, key)

RECURSIVE ArgSortUpTo(_, _)
ArgSortUpTo(key, n) ==
    IF n = 0 THEN <<>> ELSE Insert(ArgSortUpTo(key, n - 1), n, key)

\* the row indices in ascending order of key
argsort(key) == ArgSortUpTo(key, Len(key))

Reverse(s) == [i \in 1..Len(s) |-> s[Len(s) + 1 - i]]

\* method='max': the last position of the tie group
TieRankMax(i, dups, grp) == i

\* method='dense': the number of the tie group
TieRankDense(i, dups, grp) == grp

\* the rank given to the tie group that ends at position i of the sorted
\* order, holds dups members and is the grp-th group: method='min'
TieRank(i, dups, grp) == i - dups + 1

\* the walk of pandas rank_1d over the sorted order: count the members of the
\* current tie group; at its last member give the whole group its rank
RECURSIVE rank_1d(_, _, _, _, _, _)
rank_1d(vals, order, i, dups, grp, out) ==
    IF i > Len(order) THEN out
    ELSE LET d == dups + 1
             next_val_diff ==
                 \/ i = Len(order)
                 \/ vals[order[i + 1]] # vals[order[i]]
         IN  IF next_val_diff
               THEN rank_1d(vals, order, i + 1, 0, grp + 1,
                            [k \in DOMAIN out |->
                                IF \E j \in (i - d + 1)..i : order[j] = k
                                  THEN FInt(TieRank(i, d, grp + 1))
                                  ELSE out[k]])
               ELSE rank_1d(vals, order, i + 1, d, grp, out)

\* rank(ascending=True): the lowest value first
rank_ascending(vals) ==
    rank_1d(vals, argsort(vals), 1, 0, 0, [k \in DOMAIN vals |-> FInt(0)])

\* Series.rank(ascending=False): float ranks, best value first
rank(vals) ==
    rank_1d(vals, Reverse(argsort(vals)), 1, 0, 0, [k \in DOMAIN vals |-> FInt(0)])

\* astype(int) truncates the float
astype_int(x) == FTrunc(x)

Rank ==
    /\ pc = "rank"
    /\ scaled_data' =
          LET r == rank(Column(scaled_data, "Environmental_Score"))
          IN  SetCol(scaled_data, "Rank",
                     [i \in 1..NRows(scaled_data) |-> astype_int(r[i])])
    /\ pc' = "merge"
    /\ UNCHANGED <<csv, df, gdf, merged, ranked, top3, b, err>>

-----------------------------------------------------------------------------
(* merged = gdf.merge(df, on='ADM2_EN')                                    *)
(* merged = merged.merge(scaled_data[[key, score, rank]], on='ADM2_EN')    *)

Flatten(ss) ==
    LET RECURSIVE F(_)
        F(k) == IF k = 0 THEN <<>> ELSE F(k - 1) \o ss[k]
    IN  F(Len(ss))

\* the columns of t other than the join key
NonKey(t) == SelectSeq(t.columns, LAMBDA c : c # KeyCol)

\* inner join on the key, rows in the order of the left table
merge(left, right) ==
    LET cols == left.columns \o NonKey(right)
        join(l) ==
            LET hits == SelectSeq(right.rows, LAMBDA r : r[KeyCol] = l[KeyCol])
            IN  [j \in 1..Len(hits) |->
                    [c \in Range(cols) |->
                        IF c \in Range(left.columns) THEN l[c] ELSE hits[j][c]]]
    IN  Table(cols, Flatten([i \in 1..NRows(left) |-> join(left.rows[i])]))

Merge ==
    /\ pc = "merge"
    /\ merged' = merge(merge(gdf, df),
                       Project(scaled_data, <<KeyCol, "Environmental_Score", "Rank">>))
    /\ pc' = "table"
    /\ UNCHANGED <<csv, df, gdf, scaled_data, ranked, top3, b, err>>

-----------------------------------------------------------------------------
(* The ranking table, lines 109-122.                                       *)

\* Series.round(3), as numpy computes it: rint(x * 1000) / 1000
round3(x) == FDiv(FRint(FMul(x, FInt(1000))), FInt(1000))

\* the medals stand for the three emoji of the script
rank_badge(r) ==
    IF r = 1 THEN "gold"
    ELSE IF r = 2 THEN "silver"
    ELSE IF r = 3 THEN "bronze"
    ELSE ""

Perms(n) == {p \in [1..n -> 1..n] : \A i, j \in 1..n : p[i] = p[j] => i = j}

\* sort_values('Rank', ascending=False)
sort_orders_descending(t, c) ==
    {p \in Perms(NRows(t)) :
        \A i \in 1..(NRows(t) - 1) : t.rows[p[i]][c] >= t.rows[p[i + 1]][c]}

\* sort_values('Rank') with the default, unstable sort: any order of the rows
\* in which Rank ascends
sort_orders(t, c) ==
    {p \in Perms(NRows(t)) :
        \A i \in 1..(NRows(t) - 1) : t.rows[p[i]][c] <= t.rows[p[i + 1]][c]}

RankingTable ==
    /\ pc = "table"
    /\ \E p \in sort_orders(scaled_data, "Rank") :
         LET cols == <<"Rank", KeyCol, "Environmental_Score">>
             sorted == [i \in 1..NRows(scaled_data) |-> scaled_data.rows[p[i]]]
         IN  ranked' =
               Table(Append(cols, "Rank Badge"),
                     [i \in 1..Len(sorted) |->
                         [c \in Range(cols) \cup {"Rank Badge"} |->
                             IF c = "Environmental_Score" THEN round3(sorted[i][c])
                             ELSE IF c = "Rank Badge" THEN rank_badge(sorted[i]["Rank"])
                             ELSE sorted[i][c]]])
    /\ pc' = "top3"
    /\ UNCHANGED <<csv, df, gdf, scaled_data, merged, top3, b, err>>

\* ranked.head(3)
head(t, k) == SubSeq(t.rows, 1, IF NRows(t) < k THEN NRows(t) ELSE k)

\* lines 131-133: one line per row of ranked.head(3)
Top3 ==
    /\ pc = "top3"
    /\ top3' = [i \in 1..Len(head(ranked, 3)) |->
                  [badge |-> head(ranked, 3)[i]["Rank Badge"],
                   district |-> head(ranked, 3)[i][KeyCol],
                   score |-> head(ranked, 3)[i]["Environmental_Score"]]]
    /\ pc' = "done"
    /\ UNCHANGED <<csv, df, gdf, scaled_data, merged, ranked, b, err>>

Next ==
    \/ Scale
    \/ Polarity
    \/ Score
    \/ Rank
    \/ Merge
    \/ RankingTable
    \/ Top3

Spec == Init /\ [][Next]_vars

-----------------------------------------------------------------------------
(* Vocabulary of the properties.                                           *)

Rows == 1..NRows(df)

HasScore == HasCol(scaled_data, "Environmental_Score")
HasRank == HasCol(scaled_data, "Rank")

ScoreOf(i) == scaled_data.rows[i]["Environmental_Score"]
RankOf(i) == scaled_data.rows[i]["Rank"]

\* the records tied with record i
TieGroup(i) == {j \in Rows : ScoreOf(j) = ScoreOf(i)}

\* the records that score strictly more than record i
Better(i) == {j \in Rows : FLt(ScoreOf(i), ScoreOf(j))}

IsConstant(c) == \A i, j \in Rows : df.rows[i][c] = df.rows[j][c]

ColMin(c) ==
    CHOOSE m \in {df.rows[i][c] : i \in Rows} : \A i \in Rows : FLe(m, df.rows[i][c])
ColMax(c) ==
    CHOOSE m \in {df.rows[i][c] : i \in Rows} : \A i \in Rows : FLe(df.rows[i][c], m)

\* column c as (raw - min_c) / (max_c - min_c), and as 0 when it is constant
MinMaxColumn(c) ==
    LET lo == ColMin(c)
        hi == ColMax(c)
    IN  [i \in Rows |->
            IF lo = hi THEN FInt(0)
            ELSE FDiv(FSub(df.rows[i][c], lo), FSub(hi, lo))]

\* column c of the loaded table as the scaler normalizes it
NormalizedColumn(c) == fit_transform(Column(df, c))

InUnit(x) == FLe(Zero, x) /\ FLe(x, FInt(1))

\* scaled_data holds the normalized table, before any polarity correction
Normalized == pc = "polarity" /\ b = 1

\* every schema column is in the loaded table
SchemaPresent == \A c \in Range(good \o bad) : HasCol(df, c)

-----------------------------------------------------------------------------
\* C1: every record's rank is 1 + the number of records of the batch with a
\* strictly greater score; the k records tied at a score share one rank R,
\* the next lower distinct score has rank R + k, and a batch of equal scores
\* gives every record rank 1.
C1_RankIsOnePlusBetter ==
    HasRank =>
      /\ \A i \in Rows : RankOf(i) = 1 + Cardinality(Better(i))
      /\ \A i, j \in Rows : ScoreOf(i) = ScoreOf(j) => RankOf(i) = RankOf(j)
      /\ \A i, j \in Rows :
           ( /\ FLt(ScoreOf(j), ScoreOf(i))
             /\ ~ \E m \in Rows : FLt(ScoreOf(j), ScoreOf(m)) /\ FLt(ScoreOf(m), ScoreOf(i)) )
           => RankOf(j) = RankOf(i) + Cardinality(TieGroup(i))
      /\ (\A i, j \in Rows : ScoreOf(i) = ScoreOf(j)) => \A i \in Rows : RankOf(i) = 1

\* two records tied at the best score and a third one below them
C1_Witness ==
    /\ HasRank
    /\ \E i, j, m \in Rows :
         /\ i # j
         /\ ScoreOf(i) = ScoreOf(j)
         /\ FLt(ScoreOf(m), ScoreOf(i))
         /\ Better(i) = {}

\* C2: every rank is an integer in 1..n, and a rank value r > 1 is unused only
\* inside the span R < r < R + k of a tie group of rank R and size k.
C2_RanksInRangeGapsFromTies ==
    HasRank =>
      /\ \A i \in Rows : RankOf(i) \in 1..NRows(df)
      /\ \A r \in 2..NRows(df) :
           (\A i \in Rows : RankOf(i) # r)
           => \E i \in Rows :
                RankOf(i) < r /\ r < RankOf(i) + Cardinality(TieGroup(i))

\* a ranking with an unused rank value
C2_Witness ==
    /\ HasRank
    /\ \E r \in 2..NRows(df) : \A i \in Rows : RankOf(i) # r

\* C3: the records with the maximum score, and only they, have rank 1.
C3_MaxScoreIffRankOne ==
    HasRank =>
      \A i \in Rows : (RankOf(i) = 1) <=> (\A j \in Rows : FLe(ScoreOf(j), ScoreOf(i)))

\* a ranked batch with two different scores
C3_Witness ==
    /\ HasRank
    /\ \E i, j \in Rows : FLt(ScoreOf(i), ScoreOf(j))

\* C4: in a feature column that is not constant, the normalized value is
\* (raw - min) / (max - min), lies in [0,1], is 0 at the column minimum and 1
\* at the column maximum.
C4_MinMaxNormalization ==
    Normalized =>
      \A c \in Range(features(df)) :
        ~ IsConstant(c) =>
          \A i \in Rows :
            LET v == scaled_data.rows[i][c]
            IN  /\ v = FDiv(FSub(df.rows[i][c], ColMin(c)), FSub(ColMax(c), ColMin(c)))
                /\ InUnit(v)
                /\ df.rows[i][c] = ColMin(c) => v = FInt(0)
                /\ df.rows[i][c] = ColMax(c) => v = FInt(1)

\* C5: a constant column is normalized to 0 for every record, the script does
\* not fail on it and goes on to give every record a score and a rank; a
\* constant bad column then holds 1 and a constant good column 0.
C5_ConstantColumn ==
    /\ (Normalized =>
          \A c \in Range(features(df)) :
            IsConstant(c) => \A i \in Rows : scaled_data.rows[i][c] = FInt(0))
    /\ (SchemaPresent /\ NRows(df) > 0 => err = "none")
    /\ (HasScore =>
          \A c \in Range(good \o bad) :
            IsConstant(c) =>
              \A i \in Rows :
                scaled_data.rows[i][c] = IF c \in Range(bad) THEN FInt(1) ELSE FInt(0))
    /\ (pc = "done" =>
          /\ HasScore /\ HasRank /\ NRows(scaled_data) = NRows(df)
          /\ \A i \in Rows : ScoreOf(i) # NaN /\ RankOf(i) >= 1)

\* the script has finished on a table of several records whose bad column
\* is constant and not zero
C5_Witness ==
    /\ pc = "done"
    /\ NRows(df) > 1
    /\ IsConstant(bad[1])
    /\ FLt(Zero, df.rows[1][bad[1]])

\* C6: each iteration of the loop replaces the value v of the one column
\* bad[b] by 1 - v and moves on to the next column, so that no column is
\* inverted twice and every bad column has been inverted when the score is
\* taken; no step changes the normalized value of any other column (good,
\* other feature, district name).
C6_PolarityFrame ==
    [][ NRows(scaled_data) > 0 =>
          /\ \A i \in Rows : \A c \in Range(df.columns) :
               scaled_data'.rows[i][c] =
                 IF pc = "polarity" /\ pc' = "polarity" /\ c = bad[b]
                   THEN FSub(FInt(1), scaled_data.rows[i][c])
                   ELSE scaled_data.rows[i][c]
          /\ b' = IF pc = "polarity" /\ pc' = "polarity" THEN b + 1 ELSE b
          /\ pc' = "rank" => b > Len(bad) ]_vars

\* the loop has run and the bad column differs from its normalized value
C6_Witness ==
    /\ pc = "polarity"
    /\ b > Len(bad)
    /\ \E i \in Rows : scaled_data.rows[i][bad[1]] # NormalizedColumn(bad[1])[i]
    /\ \E i \in Rows : NormalizedColumn(OtherCol)[i] = FInt(1)

\* C7: the score of a record is the sum of its normalized good values and
\* of 1 - its normalized bad values, divided by the number of good and bad
\* columns; no other feature column enters it; it lies in [0,1].
C7_ScoreIsMean ==
    HasScore =>
      LET v == [c \in Range(good) \cup Range(bad) |-> NormalizedColumn(c)]
          RECURSIVE Sum(_, _, _)
          Sum(cols, k, i) ==
            IF k = 0 THEN Zero
            ELSE FAdd(Sum(cols, k - 1, i),
                      IF cols[k] \in Range(bad)
                        THEN FSub(FInt(1), v[cols[k]][i])
                        ELSE v[cols[k]][i])
      IN  \A i \in Rows :
            /\ ScoreOf(i) =
                 FDiv(Sum(good \o bad, Len(good \o bad), i),
                      FInt(Cardinality(Range(good) \cup Range(bad))))
            /\ InUnit(ScoreOf(i))

\* C8: when a schema column is absent from the table the script fails, the
\* failure is an InvalidSchemaError, and at the failure no normalized,
\* corrected, scored or ranked record has been produced.
C8_MissingColumnFailsClean ==
    (~ SchemaPresent /\ NRows(df) > 0) =>
      /\ pc \notin {"rank", "merge", "table", "top3", "done"}
      /\ pc = "failed" => err = "InvalidSchemaError" /\ scaled_data = NoTable

\* C9: the loaded table keeps every raw cell; the scored table has one record
\* per loaded record, with its district name; the merged table shows the raw
\* values.
C9_InputUntouched ==
    /\ df = csv
    /\ (HasRank =>
          /\ NRows(scaled_data) = NRows(df)
          /\ \A i \in Rows : scaled_data.rows[i][KeyCol] = df.rows[i][KeyCol])
    /\ (pc \in {"table", "top3", "done"} =>
          /\ NRows(merged) = NRows(df)
          /\ \A i \in Rows :
               \E m \in 1..NRows(merged) :
                 /\ merged.rows[m][KeyCol] = df.rows[i][KeyCol]
                 /\ \A c \in Range(features(df)) : merged.rows[m][c] = df.rows[i][c]
                 /\ merged.rows[m]["Rank"] = RankOf(i))

\* the script has finished on a table with a raw cell that normalization
\* changed
C9_Witness ==
    /\ pc = "done"
    /\ \E i \in Rows : \E c \in Range(features(df)) :
         /\ df.rows[i][c] = FInt(2)
         /\ scaled_data.rows[i][c] # FInt(2)

=============================================================================
